---------------------------- MODULE Spec2Model ----------------------------
(***************************************************************************)
(* State-machine model of the York geodata API (src/app/routes.py).        *)
(*                                                                         *)
(* State: the five module-level GeoDataFrames, plus the last request, its  *)
(* response, the handler steps it ran and the logger calls it made.        *)
(* One action per route handler.                                           *)
(*                                                                         *)
(* Numbers.  Latitudes and longitudes are whole degrees.  The projected    *)
(* plane is in whole metres; to_crs is modelled by an affine map whose     *)
(* scale is chosen so that squared distances of every valid query stay in  *)
(* TLC's integer range.  A distance is represented by its square (metres   *)
(* squared): the handlers only ever order distances and report them.       *)
(* The radius is a whole number of miles; radius * 1609.34 is kept exact   *)
(* in centimetres.  buffer() is modelled as the open disc of that radius   *)
(* (GEOS returns a 64-gon approximating it).                               *)
(***************************************************************************)
EXTENDS Integers, Sequences, FiniteSets, TLC

VARIABLES gp_gdf, pharmacy_gdf, bins_gdf, nature_reserves_gdf,
          conservation_areas_gdf, request, response, steps, logged

datasets == <<gp_gdf, pharmacy_gdf, bins_gdf, nature_reserves_gdf,
              conservation_areas_gdf>>
vars == <<gp_gdf, pharmacy_gdf, bins_gdf, nature_reserves_gdf,
          conservation_areas_gdf, request, response, steps, logged>>

---------------------------------------------------------------------------
(* Bounds of the explored inputs *)

MaxGP == 2
MaxRadiusGP == 3
MaxPharmacies == 2
MaxBins == 2
MaxAreas == 2
MaxFeatures == 2

\* query parameters: both bounds of each range, one value beyond each, one inside
Latitudes == {-91, -90, 54, 90, 91}
Longitudes == {-181, -180, -1, 180, 181}
Radii == {-1, 0, 1, 2}

---------------------------------------------------------------------------
(* Sequences *)

\* all sequences over S of length 0..n
SeqsUpTo(S, n) == UNION {[1..k -> S] : k \in 0..n}

RECURSIVE SumSeq(_)
SumSeq(s) == IF s = <<>> THEN 0 ELSE s[1] + SumSeq(Tail(s))

---------------------------------------------------------------------------
(* Sample rows of the datasets *)

ParkView ==
  [Address_1 |-> "Park View Surgery", Address_2 |-> "28 Millfield Ave, Hull Road",
   Town |-> "York", Postcode |-> "YO10 3AB", opening_ho |-> "8:30am - 6pm",
   Saturday |-> "Closed", Sunday |-> "Closed"]

UnityHealth ==
  [Address_1 |-> "Unity Health, York Campus", Address_2 |-> "Newton Way, Heslington",
   Town |-> "York", Postcode |-> "YO10 5DE", opening_ho |-> "8:30am - 6pm",
   Saturday |-> "9am - 1pm", Sunday |-> "Closed"]

Whitworth ==
  [PharmacyName |-> "Whitworth Chemists Ltd", PharmacyAddress1 |-> "275 Melrosegate",
   PharmacyAddress2 |-> "", PharmacyAddress3 |-> "", Postcode |-> "YO10 3SN"]

Boots ==
  [PharmacyName |-> "Boots", PharmacyAddress1 |-> "5 Coney Street",
   PharmacyAddress2 |-> "", PharmacyAddress3 |-> "York", Postcode |-> "YO1 9QL"]

\* a row: the properties plus the geometry column
Row(props, geom) ==
  [c \in DOMAIN props \cup {"geometry"} |->
      IF c = "geometry" THEN geom ELSE props[c]]

LonLat(lon, lat) == [lon |-> lon, lat |-> lat]

\* GP rows around the query point (-1, 54): two places at the same distance from
\* it (one of them holding two surgeries) and one far away
NearestGPRows ==
  { Row(ParkView, LonLat(-2, 54)), Row(UnityHealth, LonLat(-2, 54)),
    Row(UnityHealth, LonLat(0, 54)), Row(ParkView, LonLat(-1, 70)) }

\* pharmacies on either side of the GP at (-2, 54): (-3, 54) is nearer to the GP,
\* (0, 54) is nearer to the query point (-1, 54)
PharmacyRows ==
  { Row(Whitworth, LonLat(-3, 54)), Row(Boots, LonLat(-3, 54)),
    Row(Boots, LonLat(0, 54)) }

\* GP rows at 0 m, 1600 m and 1700 m from the query point (-1, 54)
RadiusGPRows ==
  { Row(ParkView, LonLat(-1, 54)), Row(UnityHealth, LonLat(-1, 70)),
    Row(ParkView, LonLat(-1, 71)), Row(UnityHealth, LonLat(-1, 71)) }

StNicholasFields ==
  [LV_NAME |-> "St Nicholas Fields",
   LV_DETAILS |-> "St Nicholas Field, Bull Lane, Layerthorpe, York",
   DESCRIPTION |-> "St Nicholas Fields is in Tang Hall"]

HobMoor ==
  [LV_NAME |-> "Hob Moor",
   LV_DETAILS |-> "Hob Moor Nature Reserve, Hob Moor Drive, York",
   DESCRIPTION |-> "Hob Moor local nature reserve is behind Edmund Wilson Swimming Pool"]

Haxby == [Name |-> "Haxby Conservation Area"]
Heslington == [Name |-> "Heslington Conservation Area"]

\* a polygon of the native CRS: the rectangle west..east x south..north
Box(west, east, south, north) ==
  [west |-> west, east |-> east, south |-> south, north |-> north]

\* two overlapping areas and a third apart from both
WestBox == Box(0, 4, 0, 2)
MidBox == Box(2, 6, 0, 2)
EastBox == Box(8, 10, 0, 2)

\* bins: inside WestBox only, inside WestBox and MidBox, on the edge of WestBox
\* and inside MidBox, outside every box
BinRows ==
  { [geometry |-> LonLat(1, 1)], [geometry |-> LonLat(3, 1)],
    [geometry |-> LonLat(4, 1)], [geometry |-> LonLat(7, 1)] }

NatureReserveRows ==
  { Row(StNicholasFields, WestBox), Row(HobMoor, MidBox),
    Row(HobMoor, EastBox) }

ConservationAreaRows ==
  { Row(Haxby, WestBox), Row(Haxby, MidBox), Row(Heslington, EastBox) }

---------------------------------------------------------------------------
(* Geometry *)

\* to_crs(epsg=27700) of one point: degrees to metres (affine, scaled)
ToCrs27700(p) == [x |-> 400000 + 60 * (p.lon + 2), y |-> 100 * (p.lat - 49) - 100000]

\* gdf.to_crs(epsg=crs): a new frame, every geometry reprojected
transform_to_bng(gdf) ==
  [i \in 1..Len(gdf) |-> [gdf[i] EXCEPT !.geometry = ToCrs27700(@)]]

\* geometry.distance(point), as the square of the Euclidean distance
Distance(a, b) == (a.x - b.x) * (a.x - b.x) + (a.y - b.y) * (a.y - b.y)

\* the distance column: one distance per row
DistanceColumn(gdf_bng, point) ==
  [i \in 1..Len(gdf_bng) |-> Distance(gdf_bng[i].geometry, point)]

\* Series.idxmin(): a left-to-right scan keeping the first least value
RECURSIVE IdxMinScan(_, _, _)
IdxMinScan(col, i, best) ==
  IF i > Len(col) THEN best
  ELSE IdxMinScan(col, i + 1, IF col[i] < col[best] THEN i ELSE best)

\* variant: the last least value instead of the first
IdxMinLast(col) ==
  CHOOSE i \in 1..Len(col) :
    /\ \A j \in 1..Len(col) : col[i] <= col[j]
    /\ \A j \in 1..Len(col) : col[j] = col[i] => j <= i

IdxMin(col) == IdxMinScan(col, 2, 1)

---------------------------------------------------------------------------
(* Shared pieces of the handlers *)

\* variant: the longitude left unchecked
ValidCoordinatesLatOnly(latitude, longitude) == -90 <= latitude /\ latitude <= 90

\* not (-90 <= latitude <= 90) or not (-180 <= longitude <= 180), negated
ValidCoordinates(latitude, longitude) ==
  (-90 <= latitude /\ latitude <= 90) /\ (-180 <= longitude /\ longitude <= 180)

\* gdf is None or gdf.empty (load_geojson never returns None)
Unavailable(gdf) == Len(gdf) = 0

JSONResponse(status_code, content) == [status |-> status_code, body |-> content]

\* what one run of a handler produces
Outcome(resp, stepsRun, logCalls) ==
  [response |-> resp, steps |-> stepsRun, logged |-> logCalls]

InvalidCoordinatesResponse ==
  JSONResponse(400, [error |-> "Invalid latitude or longitude."])

\* variant: the missing GP data reported as nothing found
GPUnavailableNotFound == JSONResponse(404, [error |-> "GP data not available"])

GPUnavailableResponse == JSONResponse(500, [error |-> "GP data not available"])

---------------------------------------------------------------------------
(* GET /nearest-gp-pharmacy *)

\* variant: the pharmacies measured from the query point
NearestGpPointIsInput(nearest_gp, input_point) == input_point

\* Point(nearest_gp["geometry"].x, nearest_gp["geometry"].y)
NearestGpPoint(nearest_gp, input_point) ==
  [x |-> nearest_gp.geometry.x, y |-> nearest_gp.geometry.y]

NearestGpJson(nearest_gp, distance) ==
  [name |-> nearest_gp.Address_1,
   address |-> [address1 |-> nearest_gp.Address_1,
                address2 |-> nearest_gp.Address_2,
                town |-> nearest_gp.Town,
                postcode |-> nearest_gp.Postcode],
   opening_hours |-> [mondayToFriday |-> nearest_gp.opening_ho,
                      saturday |-> nearest_gp.Saturday,
                      sunday |-> nearest_gp.Sunday],
   distance_meters |-> distance]

NearestPharmacyJson(pharmacy, distance) ==
  [pharmacyName |-> pharmacy.PharmacyName,
   address |-> [address1 |-> pharmacy.PharmacyAddress1,
                address2 |-> pharmacy.PharmacyAddress2,
                address3 |-> pharmacy.PharmacyAddress3,
                postcode |-> pharmacy.Postcode],
   distanceInMetres |-> distance]

nearest_gp_pharmacy(latitude, longitude) ==
  IF ~ValidCoordinates(latitude, longitude)
  THEN Outcome(InvalidCoordinatesResponse, <<"validate_coordinates">>, <<"WARNING">>)
  ELSE IF Unavailable(gp_gdf)
  THEN Outcome(GPUnavailableResponse,
               <<"validate_coordinates", "check_gp">>, <<"ERROR">>)
  ELSE IF Unavailable(pharmacy_gdf)
  THEN Outcome(JSONResponse(500, [error |-> "Pharmacy data not available"]),
               <<"validate_coordinates", "check_gp", "check_pharmacy">>, <<"ERROR">>)
  ELSE
    LET gp_gdf_bng == transform_to_bng(gp_gdf)
        pharmacy_gdf_bng == transform_to_bng(pharmacy_gdf)
        input_point == ToCrs27700(LonLat(longitude, latitude))
        gp_distance == DistanceColumn(gp_gdf_bng, input_point)
        gp_idx == IdxMin(gp_distance)
        nearest_gp == gp_gdf_bng[gp_idx]
        nearest_gp_point == NearestGpPoint(nearest_gp, input_point)
        pharmacy_distance == DistanceColumn(pharmacy_gdf_bng, nearest_gp_point)
        pharmacy_idx == IdxMin(pharmacy_distance)
        nearest_pharmacy_to_gp == pharmacy_gdf_bng[pharmacy_idx]
    IN Outcome(
         JSONResponse(200,
           [nearest_gp |-> NearestGpJson(nearest_gp, gp_distance[gp_idx]),
            nearest_pharmacy_from_gp |->
              NearestPharmacyJson(nearest_pharmacy_to_gp,
                                  pharmacy_distance[pharmacy_idx])]),
         <<"validate_coordinates", "check_gp", "check_pharmacy", "to_crs",
           "gp_distance", "gp_idxmin", "pharmacy_distance", "pharmacy_idxmin">>,
         <<>>)

NearestGpPharmacy ==
  \E latitude \in Latitudes, longitude \in Longitudes :
    LET out == nearest_gp_pharmacy(latitude, longitude)
    IN /\ request' = [endpoint |-> "/nearest-gp-pharmacy",
                      latitude |-> latitude, longitude |-> longitude]
       /\ response' = out.response
       /\ steps' = out.steps
       /\ logged' = out.logged
       /\ UNCHANGED datasets

---------------------------------------------------------------------------
(* GET /gp-within-radius *)

\* METRES_IN_MILE = 1609.34, in centimetres
METRES_IN_MILE == 160934

\* variant: a radius of zero let through
InvalidRadiusStrict(radius) == radius < 0

\* radius <= 0
InvalidRadius(radius) == radius <= 0

\* variant: the radius taken as kilometres
RadiusKilometres(radius) == radius * 100000

\* radius_metres = radius * METRES_IN_MILE, in centimetres
RadiusMetres(radius) == radius * METRES_IN_MILE

\* centre_point.buffer(radius_metres): the disc around the centre
Buffer(centre_point, radius_metres) ==
  [centre |-> centre_point, radius |-> radius_metres]

\* geometry.within(buffer) of a point: its distance to the centre is below the
\* radius.  With d2 the squared distance in whole metres and the radius
\* q + rem/100 metres, d2 < (q + rem/100)^2 is decided without leaving the
\* integers: below q^2 it holds, from (q+1)^2 on it fails, in between the
\* difference to q^2 is compared with 2*q*rem/100 + (rem/100)^2.
Within(point, buffer) ==
  LET d2 == Distance(point, buffer.centre)
      q == buffer.radius \div 100
      rem == buffer.radius % 100
  IN IF d2 < q * q THEN TRUE
     ELSE IF d2 >= (q + 1) * (q + 1) THEN FALSE
     ELSE (d2 - q * q) * 10000 < 2 * q * rem * 100 + rem * rem

\* gp_gdf_bng[gp_gdf_bng.geometry.within(buffer)]: the rows under the mask, in order
RowsWithin(gdf_bng, buffer) ==
  SelectSeq(gdf_bng, LAMBDA row : Within(row.geometry, buffer))

\* variant: the empty result not told apart
NoMatchesNever(gdf) == FALSE

\* gps_within_radius.empty
NoMatches(gdf) == Len(gdf) = 0

GpJson(row) ==
  [address1 |-> row.Address_1,
   address2 |-> row.Address_2,
   town |-> row.Town,
   postcode |-> row.Postcode,
   openingHours |-> row.opening_ho,
   saturday |-> row.Saturday,
   sunday |-> row.Sunday]

\* the iterrows() loop: one record appended per row
RECURSIVE GpData(_)
GpData(rows) ==
  IF rows = <<>> THEN <<>> ELSE <<GpJson(Head(rows))>> \o GpData(Tail(rows))

NoGpsResponse ==
  JSONResponse(404, [error |-> "No GPs found within the specified radius"])

InvalidRadiusResponse == JSONResponse(400, [error |-> "Invalid radius."])

\* the handler once its inputs and its dataset have passed the checks that
\* stepsRun lists: reprojection, buffer, selection and the answer
SearchRadius(latitude, longitude, radius, stepsRun) ==
  LET gp_gdf_bng == transform_to_bng(gp_gdf)
      centre_point == ToCrs27700(LonLat(longitude, latitude))
      radius_metres == RadiusMetres(radius)
      buffer == Buffer(centre_point, radius_metres)
      gps_within_radius == RowsWithin(gp_gdf_bng, buffer)
      ran == stepsRun \o <<"to_crs", "buffer", "within">>
  IN IF NoMatches(gps_within_radius)
     THEN Outcome(NoGpsResponse, ran, <<>>)
     ELSE Outcome(JSONResponse(200, [gp_data |-> GpData(gps_within_radius)]),
                  Append(ran, "iterrows"), <<>>)

\* variant: the dataset looked at before the inputs
gp_within_radius_DatasetFirst(latitude, longitude, radius) ==
  IF Unavailable(gp_gdf)
  THEN Outcome(GPUnavailableResponse, <<"check_gp">>, <<"ERROR">>)
  ELSE IF ~ValidCoordinates(latitude, longitude)
  THEN Outcome(InvalidCoordinatesResponse,
               <<"check_gp", "validate_coordinates">>, <<"WARNING">>)
  ELSE IF InvalidRadius(radius)
  THEN Outcome(InvalidRadiusResponse,
               <<"check_gp", "validate_coordinates", "validate_radius">>,
               <<"WARNING">>)
  ELSE SearchRadius(latitude, longitude, radius,
                    <<"check_gp", "validate_coordinates", "validate_radius">>)

gp_within_radius(latitude, longitude, radius) ==
  IF ~ValidCoordinates(latitude, longitude)
  THEN Outcome(InvalidCoordinatesResponse, <<"validate_coordinates">>, <<"WARNING">>)
  ELSE IF InvalidRadius(radius)
  THEN Outcome(InvalidRadiusResponse,
               <<"validate_coordinates", "validate_radius">>, <<"WARNING">>)
  ELSE IF Unavailable(gp_gdf)
  THEN Outcome(GPUnavailableResponse,
               <<"validate_coordinates", "validate_radius", "check_gp">>, <<"ERROR">>)
  ELSE SearchRadius(latitude, longitude, radius,
                    <<"validate_coordinates", "validate_radius", "check_gp">>)

GpWithinRadius ==
  \E latitude \in Latitudes, longitude \in Longitudes, radius \in Radii :
    LET out == gp_within_radius(latitude, longitude, radius)
    IN /\ request' = [endpoint |-> "/gp-within-radius", latitude |-> latitude,
                      longitude |-> longitude, radius |-> radius]
       /\ response' = out.response
       /\ steps' = out.steps
       /\ logged' = out.logged
       /\ UNCHANGED datasets

---------------------------------------------------------------------------
(* GET /bins-in-nature-areas *)

\* variant: predicate="intersects", the edge of the polygon included
PointOnOrWithin(point, polygon) ==
  /\ polygon.west <= point.lon /\ point.lon <= polygon.east
  /\ polygon.south <= point.lat /\ point.lat <= polygon.north

\* predicate="within" for a point and a polygon: in the interior, not on the edge
PointWithin(point, polygon) ==
  /\ polygon.west < point.lon /\ point.lon < polygon.east
  /\ polygon.south < point.lat /\ point.lat < polygon.north

\* gpd.sjoin(left, right, how="inner", predicate="within"): one row per pair
\* (left row, right row) whose geometries match, by left row then right row
RECURSIVE SJoinFrom(_, _, _, _)
SJoinFrom(left, right, i, j) ==
  IF i > Len(left) THEN <<>>
  ELSE IF j > Len(right) THEN SJoinFrom(left, right, i + 1, 1)
  ELSE (IF PointWithin(left[i].geometry, right[j].geometry)
        THEN <<[index_left |-> i, index_right |-> j]>>
        ELSE <<>>) \o SJoinFrom(left, right, i, j + 1)

SJoin(left, right) == SJoinFrom(left, right, 1, 1)

\* joined.groupby("index_right").size(): a count for every right row that occurs
GroupSize(joined) ==
  [j \in {joined[k].index_right : k \in 1..Len(joined)} |->
     Cardinality({k \in 1..Len(joined) : joined[k].index_right = j})]

\* variant: the count added to the column an earlier request left on the frame
BinCountAccumulated(gdf, counts) ==
  [j \in 1..Len(gdf) |->
     (IF j \in DOMAIN counts THEN counts[j] ELSE 0)
       + (IF "bin_count" \in DOMAIN gdf[j] THEN gdf[j].bin_count ELSE 0)]

\* gdf.index.map(counts).fillna(0).astype(int): a count for every row
BinCount(gdf, counts) ==
  [j \in 1..Len(gdf) |-> IF j \in DOMAIN counts THEN counts[j] ELSE 0]

\* gdf[name] = column: the frame itself gets (or overwrites) the column
SetColumn(gdf, name, column) ==
  [j \in 1..Len(gdf) |->
     [c \in DOMAIN gdf[j] \cup {name} |->
        IF c = name THEN column[j] ELSE gdf[j][c]]]

NatureReserveJson(row, bin_count) ==
  [type |-> "Nature Reserve",
   name |-> row.LV_NAME,
   details |-> row.LV_DETAILS,
   description |-> row.DESCRIPTION,
   binCount |-> bin_count]

ConservationAreaJson(row, bin_count) ==
  [type |-> "Conservation Area",
   name |-> row.Name,
   binCount |-> bin_count]

\* variant: only the reserves that occur in the join are listed
NatureReserveListMatchedOnly(gdf, column) ==
  LET matched == SelectSeq([j \in 1..Len(column) |-> j], LAMBDA j : column[j] > 0)
  IN [k \in 1..Len(matched) |->
        NatureReserveJson(gdf[matched[k]], column[matched[k]])]

\* the two iterrows() loops: one record per row of the frame's bin_count column
NatureReserveList(gdf, column) ==
  [j \in 1..Len(column) |-> NatureReserveJson(gdf[j], column[j])]

ConservationAreaList(gdf, column) ==
  [j \in 1..Len(column) |-> ConservationAreaJson(gdf[j], column[j])]

\* the handler's outcome and the two frames as it leaves them
find_bins ==
  LET unchanged == [nature_reserves |-> nature_reserves_gdf,
                    conservation_areas |-> conservation_areas_gdf]
  IN
  IF Unavailable(bins_gdf)
  THEN unchanged @@
       Outcome(JSONResponse(500, [error |-> "Dog or Litter Bin data not available"]),
               <<"check_bins">>, <<"ERROR">>)
  ELSE IF Unavailable(nature_reserves_gdf)
  THEN unchanged @@
       Outcome(JSONResponse(500, [error |-> "Nature Reserve data not available"]),
               <<"check_bins", "check_nature_reserves">>, <<"ERROR">>)
  ELSE IF Unavailable(conservation_areas_gdf)
  THEN unchanged @@
       Outcome(JSONResponse(500, [error |-> "Conservation Area data not available"]),
               <<"check_bins", "check_nature_reserves", "check_conservation_areas">>,
               <<"ERROR">>)
  ELSE
    LET bins_in_nature_reserves == SJoin(bins_gdf, nature_reserves_gdf)
        bins_in_conservation_areas == SJoin(bins_gdf, conservation_areas_gdf)
        nature_counts == BinCount(nature_reserves_gdf,
                                  GroupSize(bins_in_nature_reserves))
        conservation_counts == BinCount(conservation_areas_gdf,
                                        GroupSize(bins_in_conservation_areas))
    IN [nature_reserves |->
          SetColumn(nature_reserves_gdf, "bin_count", nature_counts),
        conservation_areas |->
          SetColumn(conservation_areas_gdf, "bin_count", conservation_counts)] @@
       Outcome(
         JSONResponse(200,
           [nature_reserve_bin_count |->
              NatureReserveList(nature_reserves_gdf, nature_counts),
            conservation_area_bin_count |->
              ConservationAreaList(conservation_areas_gdf, conservation_counts)]),
         <<"check_bins", "check_nature_reserves", "check_conservation_areas",
           "sjoin", "groupby", "set_bin_count", "iterrows">>,
         <<>>)

FindBins ==
  LET out == find_bins
  IN /\ request' = [endpoint |-> "/bins-in-nature-areas"]
     /\ response' = out.response
     /\ steps' = out.steps
     /\ logged' = out.logged
     /\ nature_reserves_gdf' = out.nature_reserves
     /\ conservation_areas_gdf' = out.conservation_areas
     /\ UNCHANGED <<gp_gdf, pharmacy_gdf, bins_gdf>>

---------------------------------------------------------------------------
(* JSON values, as json.loads returns them *)

JNull == [type |-> "null"]
JNumber(n) == [type |-> "number", value |-> n]
JBool(b) == [type |-> "boolean", value |-> b]
JString(str) == [type |-> "string", value |-> str]
JArray(items) == [type |-> "array", items |-> items]
JObject(members) == [type |-> "object", members |-> members]
EmptyObject == JObject([k \in {} |-> JNull])

\* content that json.loads rejects (JSONDecodeError, a ValueError)
NotJson == [type |-> "not json"]

\* str.__contains__ on the strings of the model
InString(sub, str) == str = sub \/ <<sub, str>> \in {<<"features", "no features here">>}

\* a feature: an object with optional "properties" and "geometry" members
Feature(members) == JObject([type |-> JString("Feature")] @@ members)

PropertySets ==
  { EmptyObject,
    JObject([name |-> JString("Test Feature")]),
    JObject([kind |-> JString("bin")]),
    JObject([name |-> JString("Test Feature"), kind |-> JString("bin")]) }

Geometries ==
  { JNull,
    JObject([type |-> JString("Point")]),
    JObject([type |-> JString("Polygon")]) }

Features ==
  {Feature([geometry |-> g]) : g \in Geometries}
  \cup {Feature([properties |-> p, geometry |-> g]) : p \in PropertySets, g \in Geometries}

Crs84 == JObject([type |-> JString("name")])

\* file contents: unparsable, every JSON type at the top level, objects without
\* "features", with a "features" member that is no list, and feature collections
FeatureLists == {JArray(fs) : fs \in SeqsUpTo(Features, MaxFeatures)}

Contents ==
  { NotJson, JNull, JNumber(5), JBool(TRUE),
    JString("hello"), JString("no features here"),
    JArray(<<>>), JArray(<<JNumber(1)>>), JArray(<<JString("features")>>),
    EmptyObject, JObject([type |-> JString("FeatureCollection")]),
    JObject([features |-> JNull]), JObject([features |-> JString("")]) }
  \cup {JObject([features |-> fl]) : fl \in FeatureLists}
  \cup {JObject([features |-> fl, crs |-> Crs84]) : fl \in FeatureLists}

---------------------------------------------------------------------------
(* POST /upload-geojson/ *)

\* file names, as sequences of characters
Filenames ==
  { <<"a", ".", "g", "e", "o", "j", "s", "o", "n">>,
    <<".", "g", "e", "o", "j", "s", "o", "n">>,
    <<"a", ".", "j", "s", "o", "n">>,
    <<"a", ".", "g", "e", "o", "j", "s", "o", "n", ".", "t", "x", "t">>,
    <<"a", ".", "G", "E", "O", "J", "S", "O", "N">> }

\* str.endswith
EndsWith(str, suffix) ==
  /\ Len(str) >= Len(suffix)
  /\ SubSeq(str, Len(str) - Len(suffix) + 1, Len(str)) = suffix

\* file.filename.endswith(".geojson")
HasGeoJsonExtension(filename) ==
  EndsWith(filename, <<".", "g", "e", "o", "j", "s", "o", "n">>)

\* MAX_UPLOAD_SIZE = 50 * 1024 * 1024
MAX_UPLOAD_SIZE == 50 * 1024 * 1024

\* variant: the cap compared in the wrong unit
TooLargeInBits(size) == size > MAX_UPLOAD_SIZE * 8

\* variant: a file of exactly the cap counted as too large
TooLargeAtCap(size) == size >= MAX_UPLOAD_SIZE

\* len(file_content) > MAX_UPLOAD_SIZE
TooLarge(size) == size > MAX_UPLOAD_SIZE

\* len(file_content): a small file, one of exactly the cap, one a byte above it
Sizes == {120, MAX_UPLOAD_SIZE, MAX_UPLOAD_SIZE + 1}

UploadFiles ==
  [filename : Filenames, size : Sizes, content : Contents]

\* "features" in geojson_data is defined for dict (key), list (element) and
\* str (substring); for None, numbers and booleans it raises TypeError
SupportsIn(data) == data.type \in {"object", "array", "string"}

HasFeatures(data) ==
  CASE data.type = "object" -> "features" \in DOMAIN data.members
    [] data.type = "array" ->
         \E k \in 1..Len(data.items) : data.items[k] = JString("features")
    [] data.type = "string" -> InString("features", data.value)

\* for feature in geojson_data["features"]: the values the loop visits; an
\* empty str or dict is iterable too and yields nothing
Iterable(value) ==
  \/ value.type = "array"
  \/ value.type = "string"
  \/ value.type = "object"

Iterate(value) ==
  CASE value.type = "array" -> value.items
    [] value.type = "string" ->
         IF value.value = "" THEN <<>> ELSE <<JString("character")>>
    [] value.type = "object" ->
         IF DOMAIN value.members = {} THEN <<>> ELSE <<JString("key")>>

\* feature["properties"].keys() succeeds
HasPropertyKeys(feature) ==
  /\ feature.type = "object"
  /\ "properties" \in DOMAIN feature.members
  /\ feature.members.properties.type = "object"

\* feature["geometry"]["type"] succeeds and is hashable
HasGeometryType(feature) ==
  /\ feature.type = "object"
  /\ "geometry" \in DOMAIN feature.members
  /\ feature.members.geometry.type = "object"
  /\ "type" \in DOMAIN feature.members.geometry.members
  /\ feature.members.geometry.members.type.type \notin {"array", "object"}

\* columns.update(feature["properties"].keys()) over the features
Columns(features) ==
  UNION {DOMAIN features[k].members.properties.members : k \in 1..Len(features)}

\* {feature["geometry"]["type"] for feature in features}
GeometryTypes(features) ==
  {features[k].members.geometry.members.type : k \in 1..Len(features)}

\* geojson_data.get("crs", "N/A")
CrsOf(data) ==
  IF "crs" \in DOMAIN data.members THEN data.members.crs ELSE JString("N/A")

\* the orders in which a set may hand out the property keys and the geometry
\* type tags of the sample features: set iteration order follows the hashes
\* of the strings, which differ from one interpreter process to the next
KeyOrders == {<<"name", "kind">>, <<"kind", "name">>}

TypeOrders ==
  { <<JString("Point"), JString("Polygon")>>,
    <<JString("Polygon"), JString("Point")>> }

\* list(a_set): each element of the set once, in the set's iteration order
ListOf(set, order) == SelectSeq(order, LAMBDA x : x \in set)

RECURSIVE EveryKeyFrom(_, _, _)
\* variant: the keys of feature k and of the features after it, one after the
\* other, a key repeated for every feature that carries it
EveryKeyFrom(features, order, k) ==
  IF k > Len(features) THEN <<>>
  ELSE ListOf(DOMAIN features[k].members.properties.members, order)
         \o EveryKeyFrom(features, order, k + 1)

\* variant: the columns collected in a list instead of a set
ColumnListWithRepeats(features, order) == EveryKeyFrom(features, order, 1)

\* list(columns)
ColumnList(features, order) == ListOf(Columns(features), order)

\* list({feature["geometry"]["type"] for feature in features})
GeometryTypeList(features, order) == ListOf(GeometryTypes(features), order)

Summary(data, keyOrder, typeOrder) ==
  LET features == Iterate(data.members.features)
  IN [rows |-> Len(features),
      columns |-> ColumnList(features, keyOrder),
      crs |-> CrsOf(data),
      geometry_types |-> GeometryTypeList(features, typeOrder)]

\* except ValueError: logger.exception, 400 with the message
ValueErrorOutcome(message, stepsRun, logCalls) ==
  Outcome(JSONResponse(400, [error |-> message]), stepsRun,
          Append(logCalls, "ERROR"))

\* variant: the message of an unexpected failure under the key "detail"
ExceptionOutcomeAsDetail(message, stepsRun, logCalls) ==
  Outcome(JSONResponse(500, [detail |-> message]), stepsRun,
          Append(logCalls, "ERROR"))

\* except Exception: logger.exception, 500 with the message
ExceptionOutcome(message, stepsRun, logCalls) ==
  Outcome(JSONResponse(500, [error |-> message]), stepsRun,
          Append(logCalls, "ERROR"))

upload_geojson(file, keyOrder, typeOrder) ==
  IF ~HasGeoJsonExtension(file.filename)
  THEN ValueErrorOutcome("Uploaded file must be a valid GeoJSON file.",
                         <<"check_extension">>, <<"WARNING">>)
  ELSE IF TooLarge(file.size)
  THEN Outcome(JSONResponse(400, [error |-> "File is too large."]),
               <<"check_extension", "read", "check_size">>, <<"WARNING">>)
  ELSE
    LET geojson_data == file.content
        loaded == <<"check_extension", "read", "check_size", "json_loads">>
        checked == Append(loaded, "check_features")
    IN
    IF geojson_data = NotJson
    THEN ValueErrorOutcome("Expecting value: line 1 column 1 (char 0)", loaded, <<>>)
    ELSE IF ~SupportsIn(geojson_data)
    THEN ExceptionOutcome("argument of this type is not iterable", checked, <<>>)
    ELSE IF ~HasFeatures(geojson_data)
    THEN ValueErrorOutcome("Uploaded file is not a valid GeoJSON file.",
                           checked, <<"WARNING">>)
    ELSE IF geojson_data.type # "object"
    THEN ExceptionOutcome("indices must be integers", checked, <<>>)
    ELSE IF ~Iterable(geojson_data.members.features)
    THEN ExceptionOutcome("object is not iterable", checked, <<>>)
    ELSE
      LET features == Iterate(geojson_data.members.features)
          summarised == Append(checked, "summarise")
      IN IF \E k \in 1..Len(features) : ~HasPropertyKeys(features[k])
         THEN ExceptionOutcome("'properties'", summarised, <<>>)
         ELSE IF \E k \in 1..Len(features) : ~HasGeometryType(features[k])
         THEN ExceptionOutcome("'geometry'", summarised, <<>>)
         ELSE Outcome(JSONResponse(200, Summary(geojson_data, keyOrder, typeOrder)),
                      summarised, <<>>)

UploadGeojson(file) ==
  \E keyOrder \in KeyOrders, typeOrder \in TypeOrders :
    LET out == upload_geojson(file, keyOrder, typeOrder)
    IN /\ request' = [endpoint |-> "/upload-geojson/", file |-> file]
       /\ response' = out.response
       /\ steps' = out.steps
       /\ logged' = out.logged
       /\ UNCHANGED datasets

---------------------------------------------------------------------------
(* Specifications *)

Idle ==
  /\ request = [endpoint |-> "none"]
  /\ response = JSONResponse(0, [idle |-> TRUE])
  /\ steps = <<>>
  /\ logged = <<>>

InitNearest ==
  /\ gp_gdf \in SeqsUpTo(NearestGPRows, MaxGP)
  /\ pharmacy_gdf \in SeqsUpTo(PharmacyRows, MaxPharmacies)
  /\ bins_gdf = <<>>
  /\ nature_reserves_gdf = <<>>
  /\ conservation_areas_gdf = <<>>
  /\ Idle

NextNearest == NearestGpPharmacy

SpecNearest == InitNearest /\ [][NextNearest]_vars

InitRadius ==
  /\ gp_gdf \in SeqsUpTo(RadiusGPRows, MaxRadiusGP)
  /\ pharmacy_gdf = <<>>
  /\ bins_gdf = <<>>
  /\ nature_reserves_gdf = <<>>
  /\ conservation_areas_gdf = <<>>
  /\ Idle

NextRadius == GpWithinRadius

SpecRadius == InitRadius /\ [][NextRadius]_vars

InitBins ==
  /\ gp_gdf = <<>>
  /\ pharmacy_gdf = <<>>
  /\ bins_gdf \in SeqsUpTo(BinRows, MaxBins)
  /\ nature_reserves_gdf \in SeqsUpTo(NatureReserveRows, MaxAreas)
  /\ conservation_areas_gdf \in SeqsUpTo(ConservationAreaRows, MaxAreas)
  /\ Idle

NextBins == FindBins

SpecBins == InitBins /\ [][NextBins]_vars

InitUpload ==
  /\ gp_gdf = <<>>
  /\ pharmacy_gdf = <<>>
  /\ bins_gdf = <<>>
  /\ nature_reserves_gdf = <<>>
  /\ conservation_areas_gdf = <<>>
  /\ Idle

\* upload_geojson reads nothing but its file and leaves nothing behind for a
\* later request: every upload is explored as the first request of a behaviour
NextUpload == Idle /\ \E file \in UploadFiles : UploadGeojson(file)

SpecUpload == InitUpload /\ [][NextUpload]_vars

\* The whole service: every dataset either empty or loaded with sample rows,
\* requests to the four endpoints in any order.
SampleUploads ==
  [filename : { <<"a", ".", "g", "e", "o", "j", "s", "o", "n">>,
                <<"a", ".", "j", "s", "o", "n">> },
   size : {120, MAX_UPLOAD_SIZE + 1},
   content : { NotJson, JNull, EmptyObject,
               JObject([features |-> JArray(<<>>)]),
               JObject([features |->
                  JArray(<<Feature([properties |-> JObject([name |-> JString("Test Feature")]),
                                    geometry |-> JObject([type |-> JString("Point")])])>>),
                        crs |-> Crs84]) }]

Init ==
  /\ gp_gdf \in { <<>>, <<Row(ParkView, LonLat(-1, 54))>>,
                   <<Row(ParkView, LonLat(-2, 54)), Row(UnityHealth, LonLat(0, 54))>> }
  /\ pharmacy_gdf \in { <<>>, <<Row(Whitworth, LonLat(-3, 54)), Row(Boots, LonLat(0, 54))>> }
  /\ bins_gdf \in { <<>>, <<[geometry |-> LonLat(1, 1)], [geometry |-> LonLat(3, 1)]>> }
  /\ nature_reserves_gdf \in
       { <<>>, <<Row(StNicholasFields, WestBox), Row(HobMoor, EastBox)>> }
  /\ conservation_areas_gdf \in
       { <<>>, <<Row(Haxby, WestBox), Row(Haxby, MidBox)>> }
  /\ Idle

Next ==
  \/ NearestGpPharmacy
  \/ GpWithinRadius
  \/ FindBins
  \/ \E file \in SampleUploads : UploadGeojson(file)

Spec == Init /\ [][Next]_vars

---------------------------------------------------------------------------
(* Vocabulary of the properties, stated on the requests and the datasets *)

IsNearest == request.endpoint = "/nearest-gp-pharmacy"
IsRadius == request.endpoint = "/gp-within-radius"

\* the query point of the last request lies in [-90, 90] x [-180, 180]
QueryInRange ==
  /\ request.latitude \in -90..90
  /\ request.longitude \in -180..180

QueryPoint == ToCrs27700(LonLat(request.longitude, request.latitude))

\* squared distance in metres of row i of a dataset to a projected point
RowDistance(gdf, i, point) == Distance(ToCrs27700(gdf[i].geometry), point)

\* i is the first row of gdf at the least distance from point
FirstNearest(gdf, i, point) ==
  /\ \A j \in 1..Len(gdf) : RowDistance(gdf, i, point) <= RowDistance(gdf, j, point)
  /\ \A j \in 1..(i - 1) : RowDistance(gdf, j, point) > RowDistance(gdf, i, point)

\* a squared distance d2 (whole metres) is below (miles * 1609.34)^2, and
\* 1609.34^2 = 2589975.2356
BelowMiles(d2, miles) ==
  d2 <= miles * miles * 2589975 + (miles * miles * 2356) \div 10000

\* the GP rows lying inside the circle of the last radius request
GpsInside ==
  {i \in 1..Len(gp_gdf) :
     BelowMiles(RowDistance(gp_gdf, i, QueryPoint), request.radius)}

ErrorBody(message) == [error |-> message]

---------------------------------------------------------------------------
(* C1: a request to the nearest-GP or the radius endpoint whose latitude is
   outside [-90, 90] or whose longitude is outside [-180, 180] is answered 400
   "Invalid latitude or longitude.", whatever the radius and the datasets; a
   request with both inside the ranges, bounds included, never is. *)
C1_InvalidCoordinates ==
  (IsNearest \/ IsRadius) =>
    (~QueryInRange <=>
       (response.status = 400
        /\ response.body = ErrorBody("Invalid latitude or longitude.")))

\* a longitude just beyond its range, with an invalid radius and no GP data
C1_Witness ==
  /\ IsRadius
  /\ request.latitude = 90 /\ request.longitude = 181
  /\ request.radius = 0
  /\ gp_gdf = <<>>
  /\ response.status = 400

(* C2: a radius request with valid coordinates and radius <= 0 is answered 400
   "Invalid radius.", and no request with radius > 0 is answered that way. *)
C2_InvalidRadius ==
  IsRadius =>
    /\ (QueryInRange /\ request.radius <= 0) =>
          (response.status = 400 /\ response.body = ErrorBody("Invalid radius."))
    /\ request.radius > 0 => response.body # ErrorBody("Invalid radius.")

C2_Witness ==
  /\ IsRadius /\ QueryInRange /\ request.radius = 0
  /\ gp_gdf # <<>>
  /\ response.status = 400

(* C3: with valid coordinates, radius > 0 and a non-empty GP dataset, the answer
   is 404 "No GPs found within the specified radius" exactly when no GP lies
   inside the circle, and otherwise 200 with a non-empty gp_data list. *)
C3_NoMatchIs404 ==
  (IsRadius /\ QueryInRange /\ request.radius > 0 /\ gp_gdf # <<>>) =>
    IF GpsInside = {}
    THEN /\ response.status = 404
         /\ response.body = ErrorBody("No GPs found within the specified radius")
    ELSE /\ response.status = 200
         /\ DOMAIN response.body = {"gp_data"}
         /\ response.body.gp_data # <<>>

C3_Witness ==
  /\ IsRadius /\ QueryInRange /\ request.radius = 1
  /\ gp_gdf # <<>> /\ GpsInside = {}
  /\ \E i \in 1..Len(gp_gdf) : RowDistance(gp_gdf, i, QueryPoint) = 1700 * 1700
  /\ response.status = 404

(* C4 as stated: for a valid query point and a non-empty GP collection the
   nearest-GP endpoint returns the first GP at the least distance, with that
   distance. *)
C4_AsStated ==
  (IsNearest /\ QueryInRange /\ gp_gdf # <<>>) =>
    /\ response.status = 200
    /\ \E i \in 1..Len(gp_gdf) :
          /\ FirstNearest(gp_gdf, i, QueryPoint)
          /\ response.body.nearest_gp =
                NearestGpJson(gp_gdf[i], RowDistance(gp_gdf, i, QueryPoint))

(* C4 amended: for a valid query point, a non-empty GP collection and a
   non-empty pharmacy collection, the endpoint answers 200 and nearest_gp is
   the first GP, in collection order, at the least distance from the query
   point, reported with that distance. *)
C4_NearestGp ==
  (IsNearest /\ QueryInRange /\ gp_gdf # <<>> /\ pharmacy_gdf # <<>>) =>
    /\ response.status = 200
    /\ \E i \in 1..Len(gp_gdf) :
          /\ FirstNearest(gp_gdf, i, QueryPoint)
          /\ response.body.nearest_gp =
                NearestGpJson(gp_gdf[i], RowDistance(gp_gdf, i, QueryPoint))

\* two different surgeries tie for the least distance
C4_Witness ==
  /\ IsNearest /\ QueryInRange /\ response.status = 200
  /\ \E i, j \in 1..Len(gp_gdf) :
        /\ i < j
        /\ FirstNearest(gp_gdf, i, QueryPoint)
        /\ RowDistance(gp_gdf, j, QueryPoint) = RowDistance(gp_gdf, i, QueryPoint)
        /\ gp_gdf[i].geometry # gp_gdf[j].geometry
        /\ gp_gdf[i].Address_1 # gp_gdf[j].Address_1

(* C5: on a 200 answer of the nearest-GP endpoint the pharmacy returned is the
   first one at the least distance from the location of the selected GP (not
   from the query point), reported with its distance to that GP, and the GP is
   selected before the pharmacy distances are computed. *)
C5_PharmacyFromGp ==
  (IsNearest /\ response.status = 200) =>
    /\ \E i \in 1..Len(gp_gdf), k \in 1..Len(pharmacy_gdf) :
          LET gp_point == ToCrs27700(gp_gdf[i].geometry)
          IN /\ FirstNearest(gp_gdf, i, QueryPoint)
             /\ FirstNearest(pharmacy_gdf, k, gp_point)
             /\ response.body.nearest_pharmacy_from_gp =
                   NearestPharmacyJson(pharmacy_gdf[k],
                                       RowDistance(pharmacy_gdf, k, gp_point))
    /\ \E a, b \in 1..Len(steps) :
          a < b /\ steps[a] = "gp_idxmin" /\ steps[b] = "pharmacy_distance"

\* the pharmacy nearest to the GP is not the one nearest to the query point
C5_Witness ==
  /\ IsNearest /\ response.status = 200
  /\ \E i \in 1..Len(gp_gdf), k, m \in 1..Len(pharmacy_gdf) :
        /\ FirstNearest(gp_gdf, i, QueryPoint)
        /\ FirstNearest(pharmacy_gdf, k, ToCrs27700(gp_gdf[i].geometry))
        /\ FirstNearest(pharmacy_gdf, m, QueryPoint)
        /\ pharmacy_gdf[k].PharmacyName # pharmacy_gdf[m].PharmacyName
        /\ response.body.nearest_pharmacy_from_gp.pharmacyName =
              pharmacy_gdf[k].PharmacyName

(* C6: on a 200 answer of the radius endpoint gp_data holds exactly one record
   per GP row lying within radius * 1609.34 metres of the centre, none other,
   in the order of the rows in the GP collection. *)
C6_ExactlyTheGpsInside ==
  (IsRadius /\ response.status = 200) =>
    /\ Len(response.body.gp_data) = Cardinality(GpsInside)
    /\ \A i \in GpsInside :
          response.body.gp_data[Cardinality({j \in GpsInside : j <= i})] =
            GpJson(gp_gdf[i])

\* a row outside the circle stands between two different rows inside it, one of
\* them 1600 m away (inside one mile only by the 1609.34 factor)
C6_Witness ==
  /\ IsRadius /\ response.status = 200 /\ request.radius = 1
  /\ Len(gp_gdf) = 3
  /\ GpsInside = {1, 3}
  /\ gp_gdf[1].Address_1 # gp_gdf[3].Address_1
  /\ \E i \in GpsInside : RowDistance(gp_gdf, i, QueryPoint) = 1600 * 1600
  /\ Len(response.body.gp_data) = 2

---------------------------------------------------------------------------
(* Vocabulary of the bin counts *)

IsBins == request.endpoint = "/bins-in-nature-areas"

\* bin i lies in the interior of the polygon of row j of areas
BinInArea(i, areas, j) ==
  LET bin == bins_gdf[i].geometry
      box == areas[j].geometry
  IN /\ box.west < bin.lon /\ bin.lon < box.east
     /\ box.south < bin.lat /\ bin.lat < box.north

BinsInArea(areas, j) == {i \in 1..Len(bins_gdf) : BinInArea(i, areas, j)}

\* the pairs the join enumerates, and the bins that occur in one of them
MatchedPairs(areas) ==
  {pair \in (1..Len(bins_gdf)) \X (1..Len(areas)) :
     BinInArea(pair[1], areas, pair[2])}

MatchedBins(areas) ==
  {i \in 1..Len(bins_gdf) : \E j \in 1..Len(areas) : BinInArea(i, areas, j)}

BinCountSum(list) == SumSeq([j \in 1..Len(list) |-> list[j].binCount])

(* C7: on a 200 answer of the bins endpoint each of the two lists holds one
   record per polygon of its collection, in the order of the collection, and a
   polygon with no bin inside is listed with binCount 0. *)
C7_EveryAreaListed ==
  (IsBins /\ response.status = 200) =>
    /\ Len(response.body.nature_reserve_bin_count) = Len(nature_reserves_gdf)
    /\ \A j \in 1..Len(nature_reserves_gdf) :
          LET record == response.body.nature_reserve_bin_count[j]
              row == nature_reserves_gdf[j]
          IN /\ record.type = "Nature Reserve"
             /\ record.name = row.LV_NAME
             /\ record.details = row.LV_DETAILS
             /\ record.description = row.DESCRIPTION
             /\ BinsInArea(nature_reserves_gdf, j) = {} => record.binCount = 0
    /\ Len(response.body.conservation_area_bin_count) = Len(conservation_areas_gdf)
    /\ \A j \in 1..Len(conservation_areas_gdf) :
          LET record == response.body.conservation_area_bin_count[j]
              row == conservation_areas_gdf[j]
          IN /\ record.type = "Conservation Area"
             /\ record.name = row.Name
             /\ BinsInArea(conservation_areas_gdf, j) = {} => record.binCount = 0

\* a reserve without bins is listed before a different one that has bins
C7_Witness ==
  /\ IsBins /\ response.status = 200
  /\ Len(nature_reserves_gdf) = 2
  /\ nature_reserves_gdf[1].LV_NAME # nature_reserves_gdf[2].LV_NAME
  /\ BinsInArea(nature_reserves_gdf, 1) = {}
  /\ BinsInArea(nature_reserves_gdf, 2) # {}
  /\ response.body.nature_reserve_bin_count[1].binCount = 0
  /\ response.body.nature_reserve_bin_count[2].binCount > 0

(* C8 as stated: for each polygon collection the sum of binCount equals the
   number of bin points the join matched, every bin matching at most one
   polygon. *)
C8_AsStated ==
  (IsBins /\ response.status = 200) =>
    /\ BinCountSum(response.body.nature_reserve_bin_count) =
          Cardinality(MatchedBins(nature_reserves_gdf))
    /\ BinCountSum(response.body.conservation_area_bin_count) =
          Cardinality(MatchedBins(conservation_areas_gdf))

(* C8 amended: for each polygon collection the sum of binCount equals the
   number of (bin, polygon) pairs with the bin inside the polygon: a bin
   outside every polygon adds nothing, and a bin inside several polygons of
   the collection is counted once for each of them. *)
C8_SumIsMatchedPairs ==
  (IsBins /\ response.status = 200) =>
    /\ BinCountSum(response.body.nature_reserve_bin_count) =
          Cardinality(MatchedPairs(nature_reserves_gdf))
    /\ BinCountSum(response.body.conservation_area_bin_count) =
          Cardinality(MatchedPairs(conservation_areas_gdf))

\* one bin outside every reserve, one inside two overlapping reserves
C8_Witness ==
  /\ IsBins /\ response.status = 200
  /\ \E i \in 1..Len(bins_gdf) : i \notin MatchedBins(nature_reserves_gdf)
  /\ \E i \in 1..Len(bins_gdf) :
        /\ BinInArea(i, nature_reserves_gdf, 1)
        /\ Len(nature_reserves_gdf) = 2 /\ BinInArea(i, nature_reserves_gdf, 2)
  /\ BinCountSum(response.body.nature_reserve_bin_count) = 2

---------------------------------------------------------------------------
(* Vocabulary of the uploads *)

IsUpload == request.endpoint = "/upload-geojson/"

\* the last uploaded file is named *.geojson
NamedGeoJson ==
  LET name == request.file.filename
      n == Len(name)
  IN /\ n >= 8
     /\ <<name[n - 7], name[n - 6], name[n - 5], name[n - 4],
          name[n - 3], name[n - 2], name[n - 1], name[n]>> =
        <<".", "g", "e", "o", "j", "s", "o", "n">>

OverCap == request.file.size > 52428800

\* the content parses and is an object whose "features" member is a list
HasFeatureList ==
  LET data == request.file.content
  IN /\ data.type = "object"
     /\ "features" \in DOMAIN data.members
     /\ data.members.features.type = "array"

Ran(step) == \E k \in 1..Len(steps) : steps[k] = step

Before(first, second) ==
  \A a, b \in 1..Len(steps) : (steps[a] = second /\ steps[b] = first) => b < a

(* C9: an upload named *.geojson and within the size cap whose content does not
   parse, or parses to a value of any JSON type without a top-level feature
   list, is answered 400 with an "error" key in the body. *)
C9_AsStated ==
  (IsUpload /\ NamedGeoJson /\ ~OverCap /\ ~HasFeatureList) =>
    (response.status = 400 /\ "error" \in DOMAIN response.body)

(* C10: the upload checks run in the order extension, size, content: a wrong
   extension is reported whatever the size and content, an oversized file is
   reported whatever its content, both as 400, and in neither case is the
   content parsed. *)
C10_CheckOrder ==
  IsUpload =>
    /\ ~NamedGeoJson =>
          /\ response = JSONResponse(400,
                ErrorBody("Uploaded file must be a valid GeoJSON file."))
          /\ ~Ran("check_size") /\ ~Ran("json_loads")
    /\ (NamedGeoJson /\ OverCap) =>
          /\ response = JSONResponse(400, ErrorBody("File is too large."))
          /\ ~Ran("json_loads")
    /\ Before("check_extension", "check_size")
    /\ Before("check_size", "json_loads")

\* an oversized file of unparsable content under a good name
C10_Witness ==
  /\ IsUpload /\ NamedGeoJson /\ OverCap
  /\ request.file.content = NotJson
  /\ response.status = 400
  /\ Ran("check_size")

---------------------------------------------------------------------------
(* The size cap *)

UploadSize == request.file.size

RejectedAsTooLarge == response.body = ErrorBody("File is too large.")

(* C11, as stated: an upload of 50 MiB or more, the cap included, is answered
   400 without its content being parsed, and a smaller one is never rejected
   as too large. *)
C11_AsStated ==
  IsUpload =>
    /\ UploadSize >= 52428800 => (response.status = 400 /\ ~Ran("json_loads"))
    /\ UploadSize < 52428800 => ~RejectedAsTooLarge

(* C11: an upload of more than 50 MiB is answered 400 without its content
   being parsed, and one of exactly 50 MiB or less is never rejected as too
   large. *)
C11_AboveCapRejected ==
  IsUpload =>
    /\ UploadSize > 52428800 => (response.status = 400 /\ ~Ran("json_loads"))
    /\ UploadSize <= 52428800 => ~RejectedAsTooLarge

\* a feature collection of exactly 50 MiB is parsed and summarised
C11_Witness ==
  /\ IsUpload /\ NamedGeoJson
  /\ UploadSize = 52428800
  /\ Ran("json_loads")
  /\ response.status = 200

---------------------------------------------------------------------------
(* The upload summary *)

\* the feature list of the last uploaded file, empty when "features" holds
\* no list
UploadedFeatures ==
  IF HasFeatureList THEN request.file.content.members.features.items ELSE <<>>

\* every property key that some uploaded feature carries
UploadedKeys ==
  {key \in {"name", "kind", "type", "geometry", "properties"} :
     \E k \in 1..Len(UploadedFeatures) :
        key \in DOMAIN UploadedFeatures[k].members.properties.members}

\* every geometry type tag that some uploaded feature carries
UploadedTypes ==
  {UploadedFeatures[k].members.geometry.members.type :
     k \in 1..Len(UploadedFeatures)}

Elements(list) == {list[k] : k \in 1..Len(list)}

NoRepeats(list) ==
  \A a, b \in 1..Len(list) : list[a] = list[b] => a = b

(* C12: the body of a 200 answer to an upload has exactly the keys rows,
   columns, crs and geometry_types; rows is the length of the feature list,
   columns holds every property key of the features once, geometry_types every
   geometry type tag once, and crs is the file's top-level "crs" member, or
   "N/A" when it has none. *)
C12_Summary ==
  (IsUpload /\ response.status = 200) =>
    /\ DOMAIN response.body = {"rows", "columns", "crs", "geometry_types"}
    /\ response.body.rows = Len(UploadedFeatures)
    /\ Elements(response.body.columns) = UploadedKeys
    /\ NoRepeats(response.body.columns)
    /\ Elements(response.body.geometry_types) = UploadedTypes
    /\ NoRepeats(response.body.geometry_types)
    /\ response.body.crs =
         IF "crs" \in DOMAIN request.file.content.members
         THEN request.file.content.members.crs
         ELSE [type |-> "string", value |-> "N/A"]

\* two features that share the key "name" and the type Point, one of them
\* with a second key, in a file without "crs"
C12_Witness ==
  /\ IsUpload /\ response.status = 200
  /\ Len(UploadedFeatures) = 2
  /\ \A k \in 1..2 :
        "name" \in DOMAIN UploadedFeatures[k].members.properties.members
  /\ UploadedKeys = {"name", "kind"}
  /\ UploadedTypes = {[type |-> "string", value |-> "Point"]}
  /\ "crs" \notin DOMAIN request.file.content.members
  /\ response.body.rows = 2
  /\ Len(response.body.columns) = 2
  /\ response.body.crs.value = "N/A"

---------------------------------------------------------------------------
(* Unavailable datasets *)

\* the last request is a radius request with a positive radius
RadiusPositive == request.radius > 0

ServerError(message) == response = [status |-> 500, body |-> ErrorBody(message)]

(* C13: with valid inputs, an endpoint whose dataset is empty answers 500 with
   an "error" body that names the first empty dataset in the order of its
   checks: GPs then pharmacies for the nearest endpoint, GPs for the radius
   endpoint, bins then nature reserves then conservation areas for the bins
   endpoint. *)
C13_UnavailableIs500 ==
  /\ (IsNearest /\ QueryInRange) =>
        /\ gp_gdf = <<>> => ServerError("GP data not available")
        /\ (gp_gdf # <<>> /\ pharmacy_gdf = <<>>) =>
              ServerError("Pharmacy data not available")
  /\ (IsRadius /\ QueryInRange /\ RadiusPositive) =>
        (gp_gdf = <<>> => ServerError("GP data not available"))
  /\ IsBins =>
        /\ bins_gdf = <<>> => ServerError("Dog or Litter Bin data not available")
        /\ (bins_gdf # <<>> /\ nature_reserves_gdf = <<>>) =>
              ServerError("Nature Reserve data not available")
        /\ (bins_gdf # <<>> /\ nature_reserves_gdf # <<>>
               /\ conservation_areas_gdf = <<>>) =>
              ServerError("Conservation Area data not available")

\* a nearest request for a valid point while neither GPs nor pharmacies are
\* loaded: the GPs are the ones reported
C13_Witness ==
  /\ IsNearest /\ QueryInRange
  /\ gp_gdf = <<>> /\ pharmacy_gdf = <<>>
  /\ response.status = 500
  /\ response.body.error = "GP data not available"

---------------------------------------------------------------------------
(* The loaded collections *)

(* C14, as stated: no request changes any of the five collections: features,
   property columns and values stay as they were loaded. *)
C14_AsStated == [][datasets' = datasets]_vars

---------------------------------------------------------------------------
(* Requests in any order *)

\* the answers every request of the model would get on the collections as they
\* are now
Answers ==
  [nearest |-> [point \in Latitudes \X Longitudes |->
                  nearest_gp_pharmacy(point[1], point[2]).response],
   radius |-> [query \in Latitudes \X Longitudes \X Radii |->
                  gp_within_radius(query[1], query[2], query[3]).response],
   bins |-> find_bins.response,
   upload |-> [file \in SampleUploads |->
                 upload_geojson(file, <<"name", "kind">>,
                                <<JString("Point"), JString("Polygon")>>).response]]

(* C15: whatever requests are served, in whatever order, the answer that any
   request would get stays the one it would get on the collections as loaded:
   a step that writes to a collection changes the answer to no request, and a
   bins request repeated returns the same counts. (The handlers read their
   inputs and the collections and nothing else, so a step that leaves the
   collections alone leaves the answers alone.) *)
C15_SameAnswers == [][datasets' # datasets => Answers' = Answers]_vars

\* a radius request answered after a bins request has left its column on the
\* nature reserves
C15_Witness ==
  /\ IsRadius /\ response.status = 200
  /\ nature_reserves_gdf # <<>>
  /\ "bin_count" \in DOMAIN nature_reserves_gdf[1]

---------------------------------------------------------------------------
(* Validation first *)

\* the steps that look at a dataset, and those that compute on one
AvailabilitySteps ==
  {"check_gp", "check_pharmacy", "check_bins", "check_nature_reserves",
   "check_conservation_areas"}

GeometrySteps ==
  {"to_crs", "gp_distance", "gp_idxmin", "pharmacy_distance", "pharmacy_idxmin",
   "buffer", "within", "iterrows", "sjoin", "groupby", "set_bin_count"}

\* neither a dataset check nor a geometric step has run
OnlyValidationRan ==
  \A k \in 1..Len(steps) : steps[k] \notin AvailabilitySteps \cup GeometrySteps

(* C16: a nearest or radius request with an invalid input is answered 400
   without any dataset having been examined and without any reprojection,
   distance, buffer or join, whether or not the datasets are available; on the
   radius endpoint out-of-range coordinates are reported without the radius
   having been looked at. *)
C16_ValidationFirst ==
  (IsNearest \/ IsRadius) =>
    /\ ~QueryInRange =>
          /\ response.status = 400
          /\ response.body = ErrorBody("Invalid latitude or longitude.")
          /\ OnlyValidationRan
          /\ ~Ran("validate_radius")
    /\ (IsRadius /\ QueryInRange /\ request.radius <= 0) =>
          /\ response.status = 400
          /\ response.body = ErrorBody("Invalid radius.")
          /\ OnlyValidationRan
          /\ Before("validate_coordinates", "validate_radius")

\* a valid point with a radius of -1 while no GP is loaded
C16_Witness ==
  /\ IsRadius /\ QueryInRange
  /\ request.radius = -1
  /\ gp_gdf = <<>>
  /\ response.status = 400
  /\ steps = <<"validate_coordinates", "validate_radius">>

---------------------------------------------------------------------------
(* Log records *)

\* the last request failed a check of its input: coordinates, radius, file
\* name, file size, or a content that is no feature collection
InputRejected ==
  \/ (IsNearest \/ IsRadius) /\ ~QueryInRange
  \/ IsRadius /\ request.radius <= 0
  \/ IsUpload /\ (~NamedGeoJson \/ OverCap \/ ~HasFeatureList)

\* the handler wrote a log record of severity ERROR
ErrorLogged == \E k \in 1..Len(logged) : logged[k] = "ERROR"

(* C17, as stated: a request whose input fails validation writes no log record
   of error severity; such records are written only with the 500 answers, for
   unavailable data and unexpected failures. *)
C17_AsStated ==
  /\ InputRejected => ~ErrorLogged
  /\ ErrorLogged => response.status = 500

---------------------------------------------------------------------------
(* One answer to every request *)

\* a request has been served
Answered == request.endpoint # "none"

\* the answer is an error object: an error status and a body of the one key
\* "error"
ErrorObject ==
  /\ response.status \in {400, 404, 500}
  /\ DOMAIN response.body = {"error"}

\* the answer is the whole success object of its endpoint: every key, and a
\* record for every row it reports on
SuccessObject ==
  /\ response.status = 200
  /\ IsNearest =>
        DOMAIN response.body = {"nearest_gp", "nearest_pharmacy_from_gp"}
  /\ IsRadius =>
        /\ DOMAIN response.body = {"gp_data"}
        /\ Len(response.body.gp_data) = Cardinality(GpsInside)
  /\ IsBins =>
        /\ DOMAIN response.body =
              {"nature_reserve_bin_count", "conservation_area_bin_count"}
        /\ Len(response.body.nature_reserve_bin_count) = Len(nature_reserves_gdf)
        /\ Len(response.body.conservation_area_bin_count) =
              Len(conservation_areas_gdf)
  /\ IsUpload =>
        DOMAIN response.body = {"rows", "columns", "crs", "geometry_types"}

(* C18: every request served has one answer, which is either the whole success
   object of its endpoint or an error object with the key "error"; the handler
   ran none of its steps twice; and in every state every endpoint can take and
   answer a further request. *)
C18_OneAnswer ==
  /\ Answered =>
        /\ SuccessObject \/ ErrorObject
        /\ NoRepeats(steps)
  /\ ENABLED NearestGpPharmacy
  /\ ENABLED GpWithinRadius
  /\ ENABLED FindBins
  /\ \A file \in SampleUploads : ENABLED UploadGeojson(file)

\* an upload whose content is the JSON text null, answered by one error object
\* after the failure inside the handler
C18_Witness ==
  /\ IsUpload /\ NamedGeoJson /\ ~OverCap
  /\ request.file.content = [type |-> "null"]
  /\ response.status = 500
  /\ DOMAIN response.body = {"error"}
  /\ steps # <<>>

===========================================================================
